---- MODULE Spec2Model ----
(***************************************************************************)
(* Inference gateway (swesty/Inference-Gateway): the POST                  *)
(* /v1/chat/completions handler of app.py together with the core logic of  *)
(* gateway.py (validation, normalisation, request identity, echo engine,    *)
(* backend forwarding, exception handlers).                                 *)
(*                                                                          *)
(* JSON values are tagged records, so that Python's isinstance tests are    *)
(* computed on the tag.  Strings are TLA+ strings; the lines of a backend   *)
(* SSE body are sequences of characters, so that startswith("data:") is     *)
(* computed character by character.  Floats are carried in tenths.          *)
(* The field `created` (wall clock) of replies and chunks is not modelled.  *)
(***************************************************************************)
EXTENDS Integers, Sequences, FiniteSets, TLC

\* ------------------------------------------------------------------------
\* Bounds of the model
\* ------------------------------------------------------------------------
MaxLines == 2        \* lines in one streamed backend body

\* ------------------------------------------------------------------------
\* JSON values
\* ------------------------------------------------------------------------
JStr(s) == [t |-> "str", s |-> s]
JBool(b) == [t |-> "bool", b |-> b]
JInt(n) == [t |-> "int", n |-> n]
JFloat(x10) == [t |-> "float", x10 |-> x10]
JList(xs) == [t |-> "list", items |-> xs]
JDict(d) == [t |-> "dict", d |-> d]
None == [t |-> "null"]

\* dict.get(key, default)
Get(d, k, default) == IF k \in DOMAIN d THEN d[k] ELSE default

\* Python truth value of a JSON value (`if stream:`, `if not stream:`)
Truthy(v) ==
  CASE v.t = "bool" -> v.b
    [] v.t = "int" -> v.n # 0
    [] v.t = "float" -> v.x10 # 0
    [] v.t = "str" -> v.s # ""
    [] v.t = "list" -> v.items # <<>>
    [] v.t = "dict" -> DOMAIN v.d # {}
    [] OTHER -> FALSE

\* ------------------------------------------------------------------------
\* gateway.py: configuration
\* ------------------------------------------------------------------------
MODEL_NAME == "echo"
ALLOWED_FIELDS == {"messages", "stream", "max_tokens", "model", "temperature", "stop"}
MaxTokensLimit == 128000
MaxTemperatureX10 == 20

\* ------------------------------------------------------------------------
\* gateway.py: validate_request_body
\* ------------------------------------------------------------------------
\* one element of `messages` is a dict with str role and str content
ValidMessage(msg) ==
  /\ msg.t = "dict"
  /\ Get(msg.d, "role", None).t = "str"
  /\ Get(msg.d, "content", None).t = "str"

MessagesOk(body) ==
  LET messages == Get(body, "messages", None) IN
  /\ messages.t = "list"
  /\ \A i \in 1..Len(messages.items) : ValidMessage(messages.items[i])

StreamOk(body) == "stream" \in DOMAIN body => body["stream"].t = "bool"

\* isinstance(mt, int) holds of a bool as well, hence the second test
MaxTokensOk(body) ==
  "max_tokens" \in DOMAIN body =>
    LET mt == body["max_tokens"] IN
    ~ ( \/ mt.t \notin {"int", "bool"}
        \/ mt.t = "bool"
        \/ ~ (1 <= mt.n /\ mt.n <= MaxTokensLimit) )

ModelOk(body) == "model" \in DOMAIN body => body["model"].t = "str"

\* a temperature check with an exclusive upper bound
TemperatureOkExclusive(body) ==
  "temperature" \in DOMAIN body =>
    LET tv == body["temperature"] IN
    ~ ( \/ tv.t \notin {"int", "float", "bool"}
        \/ tv.t = "bool"
        \/ ~ (IF tv.t = "int" THEN 0 <= tv.n * 10 /\ tv.n * 10 < MaxTemperatureX10
                              ELSE 0 <= tv.x10 /\ tv.x10 < MaxTemperatureX10) )

TemperatureOk(body) ==
  "temperature" \in DOMAIN body =>
    LET tv == body["temperature"] IN
    ~ ( \/ tv.t \notin {"int", "float", "bool"}
        \/ tv.t = "bool"
        \/ ~ (IF tv.t = "int" THEN 0 <= tv.n * 10 /\ tv.n * 10 <= MaxTemperatureX10
                              ELSE 0 <= tv.x10 /\ tv.x10 <= MaxTemperatureX10) )

StopOk(body) ==
  "stop" \in DOMAIN body =>
    LET s == body["stop"] IN
    \/ s.t = "str"
    \/ s.t = "list" /\ \A i \in 1..Len(s.items) : s.items[i].t = "str"

\* the error of the first failing check, "ok" for Python's None
validate_request_body(body) ==
  IF ~ MessagesOk(body) THEN "invalid_messages"
  ELSE IF ~ StreamOk(body) THEN "invalid_stream"
  ELSE IF ~ MaxTokensOk(body) THEN "invalid_max_tokens"
  ELSE IF ~ ModelOk(body) THEN "invalid_model"
  ELSE IF ~ TemperatureOk(body) THEN "invalid_temperature"
  ELSE IF ~ StopOk(body) THEN "invalid_stop"
  ELSE "ok"

\* ------------------------------------------------------------------------
\* gateway.py: normalize_request_body
\* ------------------------------------------------------------------------
\* a default that replaces a value that is there
SetDefaultOverwrite(d, k, v) == [x \in DOMAIN d \cup {k} |-> IF x = k THEN v ELSE d[x]]

\* dict.setdefault(k, v)
SetDefault(d, k, v) == IF k \in DOMAIN d THEN d ELSE [x \in DOMAIN d \cup {k} |-> IF x = k THEN v ELSE d[x]]

normalize_request_body(body) ==
  LET out == [k \in DOMAIN body \cap ALLOWED_FIELDS |-> body[k]] IN
  SetDefault(SetDefault(out, "model", JStr(MODEL_NAME)), "stream", JBool(FALSE))

\* ------------------------------------------------------------------------
\* gateway.py: request helpers
\* ------------------------------------------------------------------------
RECURSIVE Zeros(_)
Zeros(k) == IF k <= 0 THEN "" ELSE "0" \o Zeros(k - 1)

\* uuid.uuid4(): the n-th identifier the generator hands out, 36 characters
\* in the 8-4-4-4-12 layout; the random bits are modelled by the call number
Uuid4(n) == "00000000-0000-4000-8000-" \o Zeros(12 - Len(ToString(n))) \o ToString(n)

\* a lookup that prefers request-id
resolve_request_id_swapped(hdrs, fresh) ==
  LET x == Get(hdrs, "x-request-id", "")
      y == Get(hdrs, "request-id", "") IN
  IF y # "" THEN y ELSE IF x # "" THEN x ELSE fresh

\* `fresh` is the value uuid4() returns if it is called
resolve_request_id(hdrs, fresh) ==
  LET x == Get(hdrs, "x-request-id", "")
      y == Get(hdrs, "request-id", "") IN
  IF x # "" THEN x ELSE IF y # "" THEN y ELSE fresh

\* whether resolve_request_id falls through to uuid4()
GeneratesId(hdrs) == Get(hdrs, "x-request-id", "") = "" /\ Get(hdrs, "request-id", "") = ""

Raised == [ok |-> FALSE]
Ok(v) == [ok |-> TRUE, v |-> v]

\* the scan of reversed(messages) from position i down to 1
RECURSIVE ScanPrompt(_, _)
ScanPrompt(items, i) ==
  IF i = 0 THEN Ok(JStr(""))
  ELSE IF items[i].t # "dict" THEN Raised
  ELSE IF Get(items[i].d, "role", None) = JStr("user")
       THEN Ok(Get(items[i].d, "content", JStr("")))
  ELSE ScanPrompt(items, i - 1)

\* a scan from the start of the list: the first user message
extract_prompt_first_user(body) ==
  LET messages == Get(body, "messages", JList(<<>>))
      U == {i \in 1..Len(messages.items) : Get(messages.items[i].d, "role", None) = JStr("user")} IN
  IF U = {} THEN Ok(JStr(""))
  ELSE Ok(Get(messages.items[CHOOSE i \in U : \A j \in U : i <= j].d, "content", JStr("")))

\* raises (AttributeError / TypeError) when messages is not a list of dicts
extract_prompt(body) ==
  LET messages == Get(body, "messages", JList(<<>>)) IN
  CASE messages.t = "list" -> ScanPrompt(messages.items, Len(messages.items))
    [] messages.t = "str" -> IF messages.s = "" THEN Ok(JStr("")) ELSE Raised
    [] OTHER -> Raised

Max(a, b) == IF a >= b THEN a ELSE b

\* the heuristic without its minimum
count_tokens_no_min(text) == Len(text) \div 4

count_tokens(text) == Max(1, Len(text) \div 4)

\* ------------------------------------------------------------------------
\* gateway.py: response builders and echo mode
\* ------------------------------------------------------------------------
build_response(request_id, content, prompt) ==
  [ id |-> request_id,
    object |-> "chat.completion",
    model |-> MODEL_NAME,
    choices |-> << [ index |-> 0,
                     message |-> [role |-> "assistant", content |-> content],
                     finish_reason |-> "stop" ] >>,
    usage |-> [ prompt_tokens |-> count_tokens(prompt),
                completion_tokens |-> count_tokens(content),
                total_tokens |-> count_tokens(prompt) + count_tokens(content) ] ]

\* build_sse_chunk with a chunk id of its own instead of the request's
build_sse_chunk_fixed_id(request_id, content, finish_reason) ==
  [ kind |-> "chunk",
    prefix |-> "data: ",
    json |-> [ id |-> "chatcmpl-echo",
               object |-> "chat.completion.chunk",
               model |-> MODEL_NAME,
               choices |-> << [ index |-> 0,
                                delta |-> IF content = None THEN << >>
                                          ELSE << <<"content", content.s>> >>,
                                finish_reason |-> finish_reason ] >> ],
    suffix |-> "\n\n" ]

\* content = None gives an empty delta; finish_reason = None is JSON null
build_sse_chunk(request_id, content, finish_reason) ==
  [ kind |-> "chunk",
    prefix |-> "data: ",
    json |-> [ id |-> request_id,
               object |-> "chat.completion.chunk",
               model |-> MODEL_NAME,
               choices |-> << [ index |-> 0,
                                delta |-> IF content = None THEN << >>
                                          ELSE << <<"content", content.s>> >>,
                                finish_reason |-> finish_reason ] >> ],
    suffix |-> "\n\n" ]

echo_response(prompt) == "Echo: " \o prompt

LF == "\n"
Text(chars) == [kind |-> "text", chars |-> chars]
DoneLine == << "d", "a", "t", "a", ":", " ", "[", "D", "O", "N", "E", "]" >>
DoneFrame == Text(DoneLine \o << LF, LF >>)

\* echo_stream without its terminal frame
echo_stream_no_done(prompt, request_id) ==
  << build_sse_chunk(request_id, JStr(echo_response(prompt)), None),
     build_sse_chunk(request_id, None, JStr("stop")) >>

\* the three values echo_stream yields, in order
echo_stream(prompt, request_id) ==
  << build_sse_chunk(request_id, JStr(echo_response(prompt)), None),
     build_sse_chunk(request_id, None, JStr("stop")),
     DoneFrame >>

\* ------------------------------------------------------------------------
\* gateway.py: backend forwarding
\* ------------------------------------------------------------------------
\* raise_for_status that raises for 4xx and 5xx only
RaiseForStatusErrorsOnly(code) == code >= 400

\* httpx Response.raise_for_status(): raises HTTPStatusError unless 2xx
RaiseForStatus(code) == ~ (200 <= code /\ code <= 299)

\* a client that sends the request a second time
client_post_resend(wire, url, json, hdrs, streamed) ==
  Append(Append(wire, [url |-> url, json |-> json, headers |-> hdrs, streamed |-> streamed]),
         [url |-> url, json |-> json, headers |-> hdrs, streamed |-> streamed])

\* client.post / client.stream: one more request on the wire
client_post(wire, url, json, hdrs, streamed) ==
  Append(wire, [url |-> url, json |-> json, headers |-> hdrs, streamed |-> streamed])

\* a client that is never closed
AsyncWithExitLeak(c) == c

\* leaving `async with httpx.AsyncClient(...)` / `client.stream(...)`
AsyncWithExit(c) == IF c = "open" THEN "closed" ELSE c

DataPrefix == << "d", "a", "t", "a", ":" >>
StartsWith(line, prefix) ==
  Len(line) >= Len(prefix) /\ SubSeq(line, 1, Len(prefix)) = prefix

\* a relay that forwards every non-empty line
ForwardedAnyNonEmpty(line) == line # << >>

\* `if line and line.startswith("data:")`
Forwarded(line) == line # << >> /\ StartsWith(line, DataPrefix)

\* ------------------------------------------------------------------------
\* app.py: exception handlers
\* ------------------------------------------------------------------------
\* class hierarchy (method resolution order) of the exceptions that reach
\* the application
Mro(kind) ==
  CASE kind = "HTTPStatusError" -> << "HTTPStatusError", "HTTPError", "Exception" >>
    [] kind \in {"ConnectError", "ReadError", "WriteError"} ->
         << kind, "NetworkError", "TransportError", "RequestError", "HTTPError", "Exception" >>
    [] kind \in {"ConnectTimeout", "ReadTimeout", "WriteTimeout", "PoolTimeout"} ->
         << kind, "TimeoutException", "TransportError", "RequestError", "HTTPError", "Exception" >>
    [] kind = "RemoteProtocolError" ->
         << kind, "ProtocolError", "TransportError", "RequestError", "HTTPError", "Exception" >>
    [] OTHER -> << kind, "Exception" >>

\* the handler table without the timeout handler
HandledClassesNoTimeout ==
  { "HTTPStatusError", "ConnectError", "ReadError", "WriteError", "BackendJSONError" }

HandledClasses ==
  { "HTTPStatusError", "ConnectError", "TimeoutException",
    "ReadError", "WriteError", "BackendJSONError" }

\* the JSONResponse of the handler registered for class cls
Handler(cls, exc) ==
  CASE cls = "HTTPStatusError" ->
         [status |-> 502, body |-> [error |-> "Backend error: " \o ToString(exc.code)]]
    [] cls = "ConnectError" ->
         [status |-> 502, body |-> [error |-> "Backend connection failed: " \o exc.msg]]
    [] cls = "TimeoutException" ->
         [status |-> 504, body |-> [error |-> "Backend request timed out"]]
    [] cls = "ReadError" ->
         [status |-> 502, body |-> [error |-> "Backend read failed: " \o exc.msg]]
    [] cls = "WriteError" ->
         [status |-> 502, body |-> [error |-> "Backend write failed: " \o exc.msg]]
    [] cls = "BackendJSONError" ->
         [status |-> 502, body |-> [error |-> "Backend returned non-JSON response"]]

\* the response for an exception that leaves the route before the response
\* has started: the handler of the first class of the MRO that has one,
\* else the server's 500
ExceptionResponse(exc) ==
  LET m == Mro(exc.kind)
      hit == {i \in 1..Len(m) : m[i] \in HandledClasses} IN
  IF hit = {} THEN [status |-> 500, body |-> [text |-> "Internal Server Error"]]
  ELSE Handler(m[CHOOSE i \in hit : \A j \in hit : i <= j], exc)

Exc(kind, code) == [kind |-> kind, code |-> code, msg |-> "transport failure"]
NoExc == [kind |-> "none"]

\* ------------------------------------------------------------------------
\* Inputs: inbound bodies and headers, backend behaviour
\* ------------------------------------------------------------------------
Msg(role, content) == JDict([role |-> JStr(role), content |-> JStr(content)])

\* inbound JSON bodies: valid ones, one per validation failure, and bodies
\* with fields outside ALLOWED_FIELDS (user content is always a string)
Bodies ==
  { [messages |-> JList(<< Msg("user", "Hello!") >>)],
    [messages |-> JList(<< Msg("user", "Hi") >>), stream |-> JBool(TRUE)],
    [messages |-> JList(<< >>), bogus_field |-> JInt(1)],
    [messages |-> JList(<< Msg("user", "first"), Msg("user", "Hi"), Msg("assistant", "yo") >>),
     stream |-> JBool(FALSE), model |-> JStr("gpt-x"), max_tokens |-> JInt(128000),
     temperature |-> JFloat(20), stop |-> JList(<< JStr("END") >>)],
    [messages |-> JList(<< Msg("user", "Hi") >>), stream |-> JBool(TRUE), user |-> JStr("u1")],
    [messages |-> JStr("not-a-list")],
    [messages |-> JList(<< Msg("user", "Hi") >>), stream |-> JStr("yes")],
    [messages |-> JList(<< >>), max_tokens |-> JInt(0)],
    [messages |-> JList(<< Msg("user", "Hi") >>), model |-> JInt(5), stream |-> JBool(TRUE)],
    [messages |-> JList(<< >>), temperature |-> JInt(3)],
    [messages |-> JList(<< Msg("user", "Hi") >>), stop |-> JInt(7)] }

\* inbound header sets, as the client spelled the names
HeaderSets ==
  { << >>,
    [x \in {"X-Request-ID"} |-> "test-42"],
    [x \in {"Request-Id"} |-> "rid-7"],
    [x \in {"X-Request-ID", "request-id"} |-> IF x = "X-Request-ID" THEN "" ELSE "rid-7"],
    [x \in {"x-request-id", "Request-Id"} |-> IF x = "x-request-id" THEN "test-42" ELSE "rid-7"] }

\* str.lower() on the header names in use
Lower(k) ==
  CASE k = "X-Request-ID" -> "x-request-id"
    [] k = "Request-Id" -> "request-id"
    [] k = "REQUEST-ID" -> "request-id"
    [] OTHER -> k

\* {k.lower(): v for k, v in request.headers.items()}
LowerHeaders(h) ==
  [k \in {Lower(n) : n \in DOMAIN h} |-> h[CHOOSE n \in DOMAIN h : Lower(n) = k]]

BackendUrls == {"", "http://backend:9000"}

\* status codes a backend answers with
StatusCodes == {200, 201, 302, 500}

\* bodies of a non-streamed backend answer: JSON or not
Payloads ==
  { [isJson |-> TRUE, json |-> [id |-> "chatcmpl-backend", object |-> "chat.completion"]],
    [isJson |-> TRUE, json |-> [detail |-> "x"]],
    [isJson |-> FALSE] }

\* transport failures of httpx
OpenFailures == {"ConnectError", "ConnectTimeout", "PoolTimeout", "WriteError", "WriteTimeout"}
ReadFailures == {"ReadError", "ReadTimeout", "RemoteProtocolError"}

\* lines of a streamed backend body
LineSet ==
  { << >>,
    << "d", "a", "t", "a", ":", " ", "x" >>,
    DoneLine,
    << "d", "a", "t", "a" >>,
    << " ", "d", "a", "t", "a", ":" >>,
    << ":", "k" >> }

LineSeqs(n) == UNION { [1..k -> LineSet] : k \in 0..n }

\* the inbound requests; Solo is the one that is handled alone
Reqs == {"r1", "r2"}
Solo == {"r1"}

\* ------------------------------------------------------------------------
\* State
\* ------------------------------------------------------------------------
VARIABLES
  BACKEND_URL,   \* gateway.BACKEND_URL, read from the environment at import
  uuidCalls,     \* number of uuid4() calls so far
  pc,            \* where the handling of each request stands
  body,          \* chat_completions: body
  headers,       \* chat_completions: headers (lower-cased names)
  request_id,    \* chat_completions: request_id
  stream,        \* chat_completions: stream
  prompt,        \* chat_completions: prompt (echo mode)
  wire,          \* the requests sent to the backend for each inbound request
  conn,          \* the backend client/connection: "none", "open", "closed"
  beStatus,      \* status code of the backend's answer, 0 before it
  payload,       \* body of the backend's non-streamed answer
  bbody,         \* lines of the backend's streamed body
  nread,         \* lines of bbody consumed by aiter_lines()
  raised,        \* the exception that left the forwarder, if any
  started,       \* the response start (status, headers) went to the caller
  status,        \* response status, 0 before the response exists
  respHeaders,   \* response headers set by the gateway
  respBody,      \* body of a non-streamed response
  frames,        \* frames delivered to the caller of a streamed response
  outcome,       \* how the request ended
  call           \* the last direct call of a function of gateway.py

inVars == << body, headers, request_id, stream, prompt >>
beVars == << wire, conn, beStatus, payload, bbody, nread, raised >>
outVars == << started, status, respHeaders, respBody, frames >>
vars == << BACKEND_URL, uuidCalls, pc, inVars, beVars, outVars, outcome, call >>

NoBody == [none |-> TRUE]
NoCall == [fn |-> "none", n |-> 0, generated |-> << >>]

Init ==
  /\ BACKEND_URL \in BackendUrls
  /\ uuidCalls = 0
  /\ pc = [r \in Reqs |-> "new"]
  /\ body = [r \in Reqs |-> << >>]
  /\ headers = [r \in Reqs |-> << >>]
  /\ request_id = [r \in Reqs |-> ""]
  /\ stream = [r \in Reqs |-> None]
  /\ prompt = [r \in Reqs |-> ""]
  /\ wire = [r \in Reqs |-> << >>]
  /\ conn = [r \in Reqs |-> "none"]
  /\ beStatus = [r \in Reqs |-> 0]
  /\ payload = [r \in Reqs |-> NoBody]
  /\ bbody = [r \in Reqs |-> << >>]
  /\ nread = [r \in Reqs |-> 0]
  /\ raised = [r \in Reqs |-> NoExc]
  /\ started = [r \in Reqs |-> FALSE]
  /\ status = [r \in Reqs |-> 0]
  /\ respHeaders = [r \in Reqs |-> << >>]
  /\ respBody = [r \in Reqs |-> NoBody]
  /\ frames = [r \in Reqs |-> << >>]
  /\ outcome = [r \in Reqs |-> "pending"]
  /\ call = NoCall

IdHeader(id) == [x \in {"X-Request-ID"} |-> id]
\* backend headers with an identifier of the forwarder's own
BackendHeadersOwnId(id) ==
  [x \in {"Content-Type", "X-Request-ID"} |->
     IF x = "X-Request-ID" THEN "00000000-0000-4000-8000-00000000beef" ELSE "application/json"]

BackendHeaders(id) ==
  [x \in {"Content-Type", "X-Request-ID"} |-> IF x = "X-Request-ID" THEN id ELSE "application/json"]
Url == BACKEND_URL \o "/v1/chat/completions"

\* a gateway that always answers with the echo engine
EchoModeAlways == TRUE

\* `if not BACKEND_URL:`
EchoMode == BACKEND_URL = ""

\* a generator function that runs up to its POST when it is called
GeneratorCallEager(w, url, json, hdrs) == client_post(w, url, json, hdrs, TRUE)

\* `return _stream_from_backend(url, body, headers)`: calling an async
\* generator function runs none of its body
GeneratorCall(w, url, json, hdrs) == w

\* ------------------------------------------------------------------------
\* app.py: chat_completions, from the arrival of the request to its first
\* suspension (or to its response when there is none)
\* ------------------------------------------------------------------------
handle(r, bodies, headerSets) ==
  /\ pc[r] = "new"
  /\ \E b \in bodies, h \in headerSets :
       LET hs == LowerHeaders(h)
           id == resolve_request_id(hs, Uuid4(uuidCalls + 1))
           st == Get(b, "stream", JBool(FALSE))
           p == extract_prompt(b)
       IN
       /\ body' = [body EXCEPT ![r] = b]
       /\ headers' = [headers EXCEPT ![r] = hs]
       /\ request_id' = [request_id EXCEPT ![r] = id]
       /\ uuidCalls' = IF GeneratesId(hs) THEN uuidCalls + 1 ELSE uuidCalls
       /\ stream' = [stream EXCEPT ![r] = st]
       /\ UNCHANGED << BACKEND_URL, call, beStatus, payload, bbody, nread, frames >>
       /\ IF EchoMode
          THEN \* echo mode
            /\ UNCHANGED << wire, conn >>
            /\ IF ~ p.ok
               THEN \* extract_prompt raised: no handler, the server's 500
                 LET e == Exc("AttributeError", 0) IN
                 /\ raised' = [raised EXCEPT ![r] = e]
                 /\ prompt' = prompt
                 /\ started' = [started EXCEPT ![r] = TRUE]
                 /\ status' = [status EXCEPT ![r] = ExceptionResponse(e).status]
                 /\ respBody' = [respBody EXCEPT ![r] = ExceptionResponse(e).body]
                 /\ respHeaders' = respHeaders
                 /\ pc' = [pc EXCEPT ![r] = "done"]
                 /\ outcome' = [outcome EXCEPT ![r] = "error"]
               ELSE
                 /\ raised' = raised
                 /\ prompt' = [prompt EXCEPT ![r] = p.v.s]
                 /\ started' = [started EXCEPT ![r] = TRUE]
                 /\ status' = [status EXCEPT ![r] = 200]
                 /\ respHeaders' = [respHeaders EXCEPT ![r] = IdHeader(id)]
                 /\ IF Truthy(st)
                    THEN \* StreamingResponse(echo_stream(prompt, request_id))
                      /\ respBody' = respBody
                      /\ pc' = [pc EXCEPT ![r] = "echo_stream"]
                      /\ outcome' = outcome
                    ELSE \* JSONResponse(build_response(...))
                      /\ respBody' = [respBody EXCEPT ![r] =
                                        build_response(id, echo_response(p.v.s), p.v.s)]
                      /\ pc' = [pc EXCEPT ![r] = "done"]
                      /\ outcome' = [outcome EXCEPT ![r] = "json"]
          ELSE \* backend mode: forward_to_backend(body, request_id, stream)
            /\ UNCHANGED << prompt, raised, respBody, outcome >>
            /\ IF ~ Truthy(st)
               THEN \* awaits client.post(url, json=body, headers=headers)
                 /\ wire' = [wire EXCEPT ![r] =
                               client_post(wire[r], Url, b, BackendHeaders(id), FALSE)]
                 /\ conn' = [conn EXCEPT ![r] = "open"]
                 /\ pc' = [pc EXCEPT ![r] = "await_post"]
                 /\ UNCHANGED << started, status, respHeaders >>
               ELSE \* the generator is returned unstarted and wrapped in a
                    \* StreamingResponse, whose start goes out first
                 /\ wire' = [wire EXCEPT ![r] =
                               GeneratorCall(wire[r], Url, b, BackendHeaders(id))]
                 /\ conn' = conn
                 /\ started' = [started EXCEPT ![r] = TRUE]
                 /\ status' = [status EXCEPT ![r] = 200]
                 /\ respHeaders' = [respHeaders EXCEPT ![r] = IdHeader(id)]
                 /\ pc' = [pc EXCEPT ![r] = "streaming"]

chat_completions(r) == handle(r, Bodies, HeaderSets)

\* the request ends with the response of an exception handler
Fail(r, e) ==
  /\ raised' = [raised EXCEPT ![r] = e]
  /\ started' = [started EXCEPT ![r] = TRUE]
  /\ status' = [status EXCEPT ![r] = ExceptionResponse(e).status]
  /\ respBody' = [respBody EXCEPT ![r] = ExceptionResponse(e).body]
  /\ respHeaders' = respHeaders
  /\ outcome' = [outcome EXCEPT ![r] = "error"]

\* ------------------------------------------------------------------------
\* gateway.py: forward_to_backend, non-streaming: the awaited POST returns
\* or raises, then raise_for_status(), resp.json(), JSONResponse(result)
\* ------------------------------------------------------------------------
forward_reply(r, failures, codes, payloads) ==
  /\ pc[r] = "await_post"
  /\ pc' = [pc EXCEPT ![r] = "done"]
  /\ conn' = [conn EXCEPT ![r] = AsyncWithExit(conn[r])]
  /\ UNCHANGED << BACKEND_URL, call, uuidCalls, inVars, wire, bbody, nread, frames >>
  /\ \/ \E k \in failures :
          /\ UNCHANGED << beStatus, payload >>
          /\ Fail(r, Exc(k, 0))
     \/ \E code \in codes, pl \in payloads :
          /\ beStatus' = [beStatus EXCEPT ![r] = code]
          /\ payload' = [payload EXCEPT ![r] = pl]
          /\ IF RaiseForStatus(code) THEN Fail(r, Exc("HTTPStatusError", code))
             ELSE IF ~ pl.isJson THEN Fail(r, Exc("BackendJSONError", 0))
             ELSE /\ raised' = raised
                  /\ started' = [started EXCEPT ![r] = TRUE]
                  /\ status' = [status EXCEPT ![r] = 200]
                  /\ respHeaders' = [respHeaders EXCEPT ![r] = IdHeader(request_id[r])]
                  /\ respBody' = [respBody EXCEPT ![r] = pl.json]
                  /\ outcome' = [outcome EXCEPT ![r] = "json"]

backend_reply(r) == forward_reply(r, OpenFailures \cup ReadFailures, StatusCodes, Payloads)

\* ------------------------------------------------------------------------
\* gateway.py: _stream_from_backend
\* ------------------------------------------------------------------------
\* an exception leaves the generator after the response has started: the
\* `async with` blocks are left and the caller's stream just ends
StreamAbort(r, e) ==
  /\ raised' = [raised EXCEPT ![r] = e]
  /\ conn' = [conn EXCEPT ![r] = AsyncWithExit(conn[r])]
  /\ pc' = [pc EXCEPT ![r] = "done"]
  /\ outcome' = [outcome EXCEPT ![r] = "truncated"]

\* first pull of the generator: the client is created and the POST is sent
stream_open(r) ==
  /\ pc[r] = "streaming"
  /\ wire' = [wire EXCEPT ![r] =
                client_post(wire[r], Url, body[r], BackendHeaders(request_id[r]), TRUE)]
  /\ conn' = [conn EXCEPT ![r] = "open"]
  /\ pc' = [pc EXCEPT ![r] = "s_open"]
  /\ UNCHANGED << BACKEND_URL, call, uuidCalls, inVars, beStatus, payload, bbody, nread, raised,
                  outVars, outcome >>

\* the answer to the streamed POST: a transport failure, or a status line
\* and headers followed by a body; then resp.raise_for_status()
stream_answer(r, failures, codes, bodies) ==
  /\ pc[r] = "s_open"
  /\ UNCHANGED << BACKEND_URL, call, uuidCalls, inVars, wire, payload, nread, outVars >>
  /\ \/ \E k \in failures :
          /\ StreamAbort(r, Exc(k, 0))
          /\ UNCHANGED << beStatus, bbody >>
     \/ \E code \in codes, ls \in bodies :
          /\ beStatus' = [beStatus EXCEPT ![r] = code]
          /\ bbody' = [bbody EXCEPT ![r] = ls]
          /\ IF RaiseForStatus(code) THEN StreamAbort(r, Exc("HTTPStatusError", code))
             ELSE /\ pc' = [pc EXCEPT ![r] = "s_read"]
                  /\ UNCHANGED << conn, raised, outcome >>

stream_open_result(r) ==
  stream_answer(r, OpenFailures \cup ReadFailures, StatusCodes, LineSeqs(MaxLines))

\* a relay that keeps its frames in one buffer for all requests
stream_read_shared_buffer(r) ==
  /\ pc[r] = "s_read"
  /\ nread[r] < Len(bbody[r])
  /\ LET line == bbody[r][nread[r] + 1] IN
       /\ nread' = [nread EXCEPT ![r] = nread[r] + 1]
       /\ frames' = [q \in Reqs |->
                       IF Forwarded(line) THEN Append(frames[q], Text(line \o << LF, LF >>))
                       ELSE frames[q]]
  /\ UNCHANGED << BACKEND_URL, call, uuidCalls, pc, inVars, wire, conn, beStatus, payload, bbody, raised,
                  started, status, respHeaders, respBody, outcome >>

\* one iteration of `async for line in resp.aiter_lines()`
stream_read(r) ==
  /\ pc[r] = "s_read"
  /\ nread[r] < Len(bbody[r])
  /\ LET line == bbody[r][nread[r] + 1] IN
       /\ nread' = [nread EXCEPT ![r] = nread[r] + 1]
       /\ frames' = [frames EXCEPT ![r] =
                       IF Forwarded(line) THEN Append(frames[r], Text(line \o << LF, LF >>))
                       ELSE frames[r]]
  /\ UNCHANGED << BACKEND_URL, call, uuidCalls, pc, inVars, wire, conn, beStatus, payload, bbody, raised,
                  started, status, respHeaders, respBody, outcome >>

\* the backend body ends: the loop and both `async with` blocks are left
stream_end(r) ==
  /\ pc[r] = "s_read"
  /\ nread[r] = Len(bbody[r])
  /\ conn' = [conn EXCEPT ![r] = AsyncWithExit(conn[r])]
  /\ pc' = [pc EXCEPT ![r] = "done"]
  /\ outcome' = [outcome EXCEPT ![r] = "complete"]
  /\ UNCHANGED << BACKEND_URL, call, uuidCalls, inVars, wire, beStatus, payload, bbody, nread, raised, outVars >>

\* a read failure that is reported to the caller as one more frame
read_failure_error_frame(r, failures) ==
  /\ pc[r] = "s_read"
  /\ \E k \in failures : StreamAbort(r, Exc(k, 0))
  /\ frames' = [frames EXCEPT ![r] =
                  Append(frames[r], Text(<< "d", "a", "t", "a", ":", " ", "e", "r", "r", "o", "r", LF, LF >>))]
  /\ UNCHANGED << BACKEND_URL, call, uuidCalls, inVars, wire, beStatus, payload, bbody, nread,
                  started, status, respHeaders, respBody >>

\* reading the next line fails
read_failure(r, failures) ==
  /\ pc[r] = "s_read"
  /\ \E k \in failures : StreamAbort(r, Exc(k, 0))
  /\ UNCHANGED << BACKEND_URL, call, uuidCalls, inVars, wire, beStatus, payload, bbody, nread, outVars >>

stream_read_fail(r) == read_failure(r, ReadFailures)

\* ------------------------------------------------------------------------
\* gateway.py: echo_stream, pulled by the StreamingResponse
\* ------------------------------------------------------------------------
echo_next(r) ==
  /\ pc[r] = "echo_stream"
  /\ LET out == echo_stream(prompt[r], request_id[r]) IN
       IF Len(frames[r]) < Len(out)
       THEN /\ frames' = [frames EXCEPT ![r] = Append(frames[r], out[Len(frames[r]) + 1])]
            /\ UNCHANGED << pc, outcome >>
       ELSE /\ frames' = frames
            /\ pc' = [pc EXCEPT ![r] = "done"]
            /\ outcome' = [outcome EXCEPT ![r] = "complete"]
  /\ UNCHANGED << BACKEND_URL, call, uuidCalls, inVars, beVars, started, status, respHeaders, respBody >>

\* ------------------------------------------------------------------------
\* The caller goes away during a streamed response: the generator is closed
\* where it stands, which leaves its `async with` blocks
\* ------------------------------------------------------------------------
client_disconnect(r) ==
  /\ pc[r] \in {"streaming", "s_open", "s_read", "echo_stream"}
  /\ conn' = [conn EXCEPT ![r] = AsyncWithExit(conn[r])]
  /\ pc' = [pc EXCEPT ![r] = "done"]
  /\ outcome' = [outcome EXCEPT ![r] = "abandoned"]
  /\ UNCHANGED << BACKEND_URL, call, uuidCalls, inVars, wire, beStatus, payload, bbody, nread, raised, outVars >>

Next ==
  \E r \in Solo :
    \/ chat_completions(r)
    \/ backend_reply(r)
    \/ stream_open(r)
    \/ stream_open_result(r)
    \/ stream_read(r)
    \/ stream_end(r)
    \/ stream_read_fail(r)
    \/ echo_next(r)
    \/ client_disconnect(r)

Spec == Init /\ [][Next]_vars

\* ------------------------------------------------------------------------
\* Two requests handled concurrently: every interleaving of their steps,
\* which are the stretches of code between two suspension points
\* ------------------------------------------------------------------------
ConcBodies ==
  { [messages |-> JList(<< Msg("user", "Hello!") >>)],
    [messages |-> JList(<< Msg("user", "Hi") >>), stream |-> JBool(TRUE)] }
ConcHeaderSets == { << >>, [x \in {"X-Request-ID"} |-> "test-42"] }
ConcFailures == {"ConnectError"}
ConcReadFailures == {"ReadError"}
ConcStatusCodes == {200, 500}
ConcPayloads ==
  { [isJson |-> TRUE, json |-> [id |-> "chatcmpl-backend", object |-> "chat.completion"]],
    [isJson |-> FALSE] }
ConcLineSet == { << >>, << "d", "a", "t", "a", ":", " ", "x" >> }
ConcLineSeqs(n) == UNION { [1..k -> ConcLineSet] : k \in 0..n }

conc_chat_completions(r) == handle(r, ConcBodies, ConcHeaderSets)
conc_backend_reply(r) == forward_reply(r, ConcFailures, ConcStatusCodes, ConcPayloads)
conc_stream_open_result(r) ==
  stream_answer(r, ConcFailures, ConcStatusCodes, ConcLineSeqs(MaxLines))
conc_stream_read_fail(r) == read_failure(r, ConcReadFailures)

\* one step of the handling of request r
ConcStep(r) ==
  \/ conc_chat_completions(r)
  \/ conc_backend_reply(r)
  \/ stream_open(r)
  \/ conc_stream_open_result(r)
  \/ stream_read(r)
  \/ stream_end(r)
  \/ conc_stream_read_fail(r)
  \/ echo_next(r)
  \/ client_disconnect(r)

ConcNext == \E r \in Reqs : ConcStep(r)

ConcSpec == Init /\ [][ConcNext]_vars

\* ------------------------------------------------------------------------
\* The functions of gateway.py called directly, one call after the other
\* ------------------------------------------------------------------------
MaxMsgs == 3         \* messages in one list given to extract_prompt
MaxCalls == 3        \* successive calls of resolve_request_id

Absent == [t |-> "absent"]

MessagesOpts ==
  { Absent, None, JStr("not-a-list"), JList(<< >>),
    JList(<< Msg("user", "Hi") >>),
    JList(<< Msg("user", "Hi"), JStr("x") >>),
    JList(<< JDict([role |-> JStr("user")]) >>),
    JList(<< JDict([role |-> JInt(1), content |-> JStr("a")]) >>) }
StreamOpts == { Absent, JBool(TRUE), JStr("yes") }
MaxTokensOpts ==
  { Absent, JInt(0), JInt(1), JInt(MaxTokensLimit), JInt(MaxTokensLimit + 1),
    JBool(TRUE), JFloat(15) }
ModelOpts == { Absent, JStr("gpt-x"), JInt(5) }
TemperatureOpts ==
  { Absent, JFloat(0), JFloat(MaxTemperatureX10), JFloat(MaxTemperatureX10 + 1), JFloat(-1),
    JInt(2), JInt(3), JBool(TRUE), JStr("hot") }
StopOpts ==
  { Absent, JStr("END"), JList(<< >>), JList(<< JStr("a"), JStr("b") >>),
    JList(<< JStr("a"), JInt(1) >>), JInt(7) }
UnknownOpts == { Absent, JInt(1) }

\* the body with the fields that are given
MakeBody(m, s, mt, mo, t, st, u) ==
  LET full == [messages |-> m, stream |-> s, max_tokens |-> mt, model |-> mo,
               temperature |-> t, stop |-> st, bogus_field |-> u]
      keys == {k \in DOMAIN full : full[k] # Absent} IN
  [k \in keys |-> full[k]]

\* messages with string role and content, and the lists of them
MsgSet == { Msg(ro, co) : ro \in {"user", "assistant", "system"}, co \in {"a", "b"} }
MsgSeqs(n) == UNION { [1..k -> MsgSet] : k \in 0..n }

\* header sets given to resolve_request_id after the lower-casing of app.py
FnHeaderSets ==
  HeaderSets \cup { [x \in {"X-Request-ID"} |-> ""],
                    [x \in {"REQUEST-ID"} |-> "rid-9"] }

fnFrame == << BACKEND_URL, pc, inVars, beVars, outVars, outcome >>

FnInit == Init /\ BACKEND_URL = ""

call_validate ==
  /\ call.fn = "none"
  /\ \E m \in MessagesOpts, s \in StreamOpts, mt \in MaxTokensOpts, mo \in ModelOpts,
        t \in TemperatureOpts, st \in StopOpts, u \in UnknownOpts :
       LET b == MakeBody(m, s, mt, mo, t, st, u) IN
       call' = [fn |-> "validate", arg |-> b, result |-> validate_request_body(b)]
  /\ UNCHANGED << fnFrame, uuidCalls >>

\* normalize_request_body on a body that validation accepts, and again on
\* its own result
call_normalize ==
  /\ call.fn = "none"
  /\ \E m \in MessagesOpts, s \in StreamOpts, mt \in MaxTokensOpts, mo \in ModelOpts,
        t \in TemperatureOpts, st \in StopOpts, u \in UnknownOpts :
       LET b == MakeBody(m, s, mt, mo, t, st, u) IN
       /\ validate_request_body(b) = "ok"
       /\ call' = [fn |-> "normalize", arg |-> b,
                   result |-> normalize_request_body(b),
                   again |-> normalize_request_body(normalize_request_body(b))]
  /\ UNCHANGED << fnFrame, uuidCalls >>

call_extract_prompt ==
  /\ call.fn = "none"
  /\ \E ms \in MsgSeqs(MaxMsgs) :
       call' = [fn |-> "extract_prompt", arg |-> ms,
                result |-> extract_prompt([messages |-> JList(ms)])]
  /\ UNCHANGED << fnFrame, uuidCalls >>

\* resolve_request_id on the lower-cased headers, several times in a row
call_resolve_request_id ==
  /\ call.fn \in {"none", "resolve_request_id"}
  /\ call.n < MaxCalls
  /\ \E h \in FnHeaderSets :
       LET hs == LowerHeaders(h)
           id == resolve_request_id(hs, Uuid4(uuidCalls + 1)) IN
       /\ call' = [fn |-> "resolve_request_id", n |-> call.n + 1, arg |-> h, result |-> id,
                   fresh |-> GeneratesId(hs),
                   generated |-> IF GeneratesId(hs) THEN Append(call.generated, id)
                                 ELSE call.generated]
       /\ uuidCalls' = IF GeneratesId(hs) THEN uuidCalls + 1 ELSE uuidCalls
  /\ UNCHANGED fnFrame

FnNext ==
  \/ call_validate
  \/ call_normalize
  \/ call_extract_prompt
  \/ call_resolve_request_id

FnSpec == FnInit /\ [][FnNext]_vars

\* ------------------------------------------------------------------------
\* Properties
\* ------------------------------------------------------------------------
Handled(r) == pc[r] # "new"
BackendMode == BACKEND_URL # ""
Streamed(r) == Handled(r) /\ Truthy(stream[r])
Is2xx(code) == 200 <= code /\ code <= 299
TimeoutKinds == {"ConnectTimeout", "ReadTimeout", "WriteTimeout", "PoolTimeout"}
BadGatewayKinds == {"HTTPStatusError", "ConnectError", "ReadError", "WriteError", "BackendJSONError"}
TransportKinds == {"HTTPStatusError", "ConnectError", "ReadError", "WriteError"} \cup TimeoutKinds

\* C1: no request goes to the backend for a body that fails validation; such
\* a request ends with the client-input error and nothing on the wire.
C1_ValidationBeforeBackend ==
  \A r \in Reqs :
    (Handled(r) /\ validate_request_body(body[r]) # "ok") =>
      /\ wire[r] = << >>
      /\ pc[r] = "done" => respBody[r] = [error |-> validate_request_body(body[r])]

\* C2 (as stated): the resolved id is the id of the JSON response body, the
\* value of the X-Request-ID response header and the id of every SSE chunk.
C2_SameIdEverywhere ==
  \A r \in Reqs :
    Handled(r) =>
      /\ started[r] => Get(respHeaders[r], "X-Request-ID", "") = request_id[r]
      /\ respBody[r] # NoBody =>
           "id" \in DOMAIN respBody[r] /\ respBody[r]["id"] = request_id[r]
      /\ \A i \in 1..Len(frames[r]) :
           frames[r][i].kind = "chunk" => frames[r][i].json.id = request_id[r]

\* C2 (amended): the id is generated at most once per request; every 200
\* response carries it as X-Request-ID; every JSON reply and SSE chunk the
\* gateway builds itself (echo mode) carries it as id; an error response
\* carries no X-Request-ID header and no id.
C2_IdOnGatewayBuiltOutput ==
  /\ uuidCalls <= Cardinality({r \in Reqs : Handled(r)})
  /\ \A r \in Reqs :
       /\ (started[r] /\ status[r] = 200) => respHeaders[r] = IdHeader(request_id[r])
       /\ (~ BackendMode /\ outcome[r] = "json") => respBody[r].id = request_id[r]
       /\ \A i \in 1..Len(frames[r]) :
            frames[r][i].kind = "chunk" => frames[r][i].json.id = request_id[r]
       /\ outcome[r] = "error" =>
            /\ "X-Request-ID" \notin DOMAIN respHeaders[r]
            /\ "id" \notin DOMAIN respBody[r]

C2_Witness ==
  \E r \in Reqs :
    /\ ~ BackendMode /\ outcome[r] = "complete"
    /\ request_id[r] = "test-42"
    /\ Len(frames[r]) = 3
    /\ frames[r][1].json.id = "test-42" /\ frames[r][2].json.id = "test-42"

\* C3: a streaming backend request whose transport fails before the first
\* frame ends with {"error": ...} and status 502 (504 for a timeout).
C3_StreamOpenFailureTranslated ==
  \A r \in Reqs :
    (BackendMode /\ Streamed(r) /\ pc[r] = "done" /\ frames[r] = << >>
       /\ raised[r].kind \in TransportKinds) =>
      /\ status[r] = IF raised[r].kind \in TimeoutKinds THEN 504 ELSE 502
      /\ DOMAIN respBody[r] = {"error"}

C5_ConnectionReleased ==
  \A r \in Reqs :
    (BackendMode /\ Streamed(r) /\ pc[r] = "done") => conn[r] # "open"

C5_Witness ==
  \E r \in Reqs :
    /\ BackendMode /\ Streamed(r) /\ outcome[r] = "abandoned"
    /\ nread[r] = 1 /\ Len(bbody[r]) = 2 /\ Len(frames[r]) = 1
    /\ conn[r] = "closed"

\* C6: the frames of an echo stream are, in order, the content chunk with
\* "Echo: " + prompt and a null finish_reason, the empty-delta chunk with
\* finish_reason "stop", and the literal [DONE] frame; the stream does not
\* raise, and it is complete exactly with these three.
C6_EchoStreamFrames ==
  \A r \in Reqs :
    (~ BackendMode /\ Streamed(r) /\ raised[r] = NoExc) =>
      LET f == frames[r] IN
      /\ pc[r] \in {"echo_stream", "done"}
      /\ Len(f) <= 3
      /\ Len(f) >= 1 =>
           /\ f[1].kind = "chunk"
           /\ f[1].json.choices[1].delta = << <<"content", "Echo: " \o prompt[r]>> >>
           /\ f[1].json.choices[1].finish_reason = None
      /\ Len(f) >= 2 =>
           /\ f[2].kind = "chunk"
           /\ f[2].json.choices[1].delta = << >>
           /\ f[2].json.choices[1].finish_reason = JStr("stop")
      /\ Len(f) >= 3 =>
           f[3] = [kind |-> "text",
                   chars |-> << "d", "a", "t", "a", ":", " ", "[", "D", "O", "N", "E", "]", "\n", "\n" >>]
      /\ outcome[r] = "complete" => Len(f) = 3

C6_Witness ==
  \E r \in Reqs :
    /\ ~ BackendMode /\ outcome[r] = "complete" /\ prompt[r] = "Hi"
    /\ Len(frames[r]) = 3

\* the lines of ls that are at least five characters long and start with
\* d, a, t, a, ":" -- each followed by two line feeds
HasDataPrefix(l) ==
  Len(l) >= 5 /\ l[1] = "d" /\ l[2] = "a" /\ l[3] = "t" /\ l[4] = "a" /\ l[5] = ":"
RECURSIVE DataFrames(_)
DataFrames(ls) ==
  IF ls = << >> THEN << >>
  ELSE (IF HasDataPrefix(Head(ls))
        THEN << [kind |-> "text", chars |-> Head(ls) \o << "\n", "\n" >>] >>
        ELSE << >>) \o DataFrames(Tail(ls))

\* C7: the frames of a passthrough stream are exactly the data: lines read
\* so far, in order, each with "\n\n" appended; nothing else is emitted, at
\* the end of the backend stream either.
C7_PassthroughFrames ==
  \A r \in Reqs :
    (BackendMode /\ Streamed(r)) =>
      frames[r] = DataFrames(SubSeq(bbody[r], 1, nread[r]))

C7_Witness ==
  \E r \in Reqs :
    /\ BackendMode /\ outcome[r] = "complete"
    /\ bbody[r] = << << ":", "k" >>, << "d", "a", "t", "a", ":", " ", "x" >> >>
    /\ Len(frames[r]) = 1

\* C8: at most one POST goes to the backend for a request, and a request
\* whose backend call failed has ended with that one POST.
C8_AtMostOnePost ==
  \A r \in Reqs :
    /\ Len(wire[r]) <= 1
    /\ raised[r].kind \in TransportKinds \cup {"BackendJSONError", "RemoteProtocolError"} =>
         pc[r] = "done" /\ Len(wire[r]) = 1

C8_Witness ==
  \E r \in Reqs :
    /\ pc[r] = "done" /\ raised[r].kind = "HTTPStatusError" /\ Len(wire[r]) = 1

\* C9: the JSON body sent to the backend is the normalized request: only
\* recognised keys, with model and stream always present.
C9_BackendBodyNormalized ==
  \A r \in Reqs :
    \A i \in 1..Len(wire[r]) :
      /\ wire[r][i].json = normalize_request_body(body[r])
      /\ DOMAIN wire[r][i].json \subseteq ALLOWED_FIELDS
      /\ {"model", "stream"} \subseteq DOMAIN wire[r][i].json

\* C10: a non-2xx answer to the stream-open POST ends the request with
\* HTTPStatusError and no frame delivered, whatever the answer's body holds.
C10_NoFrameOnNon2xxOpen ==
  \A r \in Reqs :
    (BackendMode /\ Streamed(r) /\ beStatus[r] # 0 /\ ~ Is2xx(beStatus[r])) =>
      /\ frames[r] = << >>
      /\ nread[r] = 0
      /\ pc[r] = "done"
      /\ raised[r].kind = "HTTPStatusError"

C10_Witness ==
  \E r \in Reqs :
    /\ BackendMode /\ Streamed(r) /\ beStatus[r] = 302 /\ pc[r] = "done"
    /\ bbody[r] = << << "d", "a", "t", "a", ":", " ", "x" >> >>
    /\ frames[r] = << >>

\* C11: a read failure after the first frame ends the stream where it is:
\* the frames delivered are the data: lines read up to the failure, the
\* request is over, and no error object or other frame was added.
C11_MidStreamFailureTruncates ==
  \A r \in Reqs :
    (BackendMode /\ Streamed(r) /\ raised[r].kind \in ReadFailures /\ Len(frames[r]) >= 1) =>
      /\ pc[r] = "done"
      /\ outcome[r] = "truncated"
      /\ frames[r] = DataFrames(SubSeq(bbody[r], 1, nread[r]))
      /\ Len(frames[r]) <= Len(DataFrames(bbody[r]))
      /\ status[r] = 200
      /\ respBody[r] = NoBody

C11_Witness ==
  \E r \in Reqs :
    /\ BackendMode /\ Streamed(r) /\ raised[r].kind = "ReadError"
    /\ bbody[r] = << << "d", "a", "t", "a", ":", " ", "x" >>, DoneLine >>
    /\ nread[r] = 1 /\ Len(frames[r]) = 1
    /\ pc[r] = "done"

\* C12: with an empty backend URL a request never reaches the backend and
\* is answered by the echo engine; with a non-empty one it is handed to the
\* forwarder and no echo reply or echo chunk is produced.
C12_ModeByBackendUrl ==
  \A r \in Reqs :
    Handled(r) =>
      IF BACKEND_URL = ""
      THEN /\ wire[r] = << >> /\ conn[r] = "none" /\ beStatus[r] = 0
           /\ pc[r] \in {"echo_stream", "done"}
           /\ outcome[r] = "json" =>
                respBody[r].choices[1].message.content = "Echo: " \o prompt[r]
           /\ \A i \in 1..Len(frames[r]) :
                frames[r][i].kind = "chunk" \/ frames[r][i] = DoneFrame
      ELSE /\ pc[r] \in {"await_post", "streaming", "s_open", "s_read", "done"}
           /\ pc[r] \in {"await_post", "s_open", "s_read"} => Len(wire[r]) = 1
           /\ (pc[r] = "done" /\ outcome[r] # "abandoned") => Len(wire[r]) = 1
           /\ \A i \in 1..Len(frames[r]) : frames[r][i].kind # "chunk"
           /\ frames[r] = DataFrames(SubSeq(bbody[r], 1, nread[r]))
           /\ outcome[r] = "json" => respBody[r] = payload[r].json
           /\ outcome[r] = "error" => "choices" \notin DOMAIN respBody[r]

C12_Witness ==
  \E r \in Reqs :
    /\ BACKEND_URL # "" /\ pc[r] = "done" /\ outcome[r] = "json"
    /\ body[r] = [messages |-> JList(<< Msg("user", "Hello!") >>)]
    /\ Len(wire[r]) = 1
    /\ respBody[r] = [id |-> "chatcmpl-backend", object |-> "chat.completion"]

\* C20: calling the forwarder for a stream contacts nobody: while the
\* generator has not been pulled the response has started with status 200
\* and nothing is on the wire; the one POST goes out after that start, and
\* a generator that is never pulled leaves the backend untouched.
C20_LazyStreamOpen ==
  \A r \in Reqs :
    (BackendMode /\ Streamed(r)) =>
      /\ pc[r] = "streaming" =>
           wire[r] = << >> /\ conn[r] = "none" /\ started[r] /\ status[r] = 200
      /\ wire[r] # << >> =>
           /\ Len(wire[r]) = 1 /\ wire[r][1].streamed
           /\ started[r] /\ status[r] = 200
           /\ pc[r] \in {"s_open", "s_read", "done"}
      /\ wire[r] = << >> => conn[r] = "none" /\ beStatus[r] = 0 /\ frames[r] = << >>

C20_Witness ==
  \E r \in Reqs :
    /\ BackendMode /\ Streamed(r) /\ outcome[r] = "abandoned"
    /\ started[r] /\ status[r] = 200
    /\ wire[r] = << >> /\ conn[r] = "none"

\* the content of the user message closest to the end of a list of
\* well-typed messages, "" when there is none
LastUserContent(items) ==
  LET U == {i \in 1..Len(items) : items[i].d["role"].s = "user"} IN
  IF U = {} THEN ""
  ELSE items[CHOOSE i \in U : \A j \in U : j <= i].d["content"].s

\* C14: a valid non-streaming request in echo mode gets status 200, object
\* "chat.completion", one choice with content "Echo: " + last user content
\* and finish_reason "stop", and usage with both counts >= 1 and their sum.
C14_EchoJsonReply ==
  \A r \in Reqs :
    (~ BackendMode /\ Handled(r) /\ validate_request_body(body[r]) = "ok"
       /\ ~ Truthy(stream[r])) =>
      /\ pc[r] = "done" /\ status[r] = 200
      /\ respBody[r].object = "chat.completion"
      /\ Len(respBody[r].choices) = 1
      /\ respBody[r].choices[1].message.content =
           "Echo: " \o LastUserContent(body[r]["messages"].items)
      /\ respBody[r].choices[1].finish_reason = "stop"
      /\ respBody[r].usage.prompt_tokens >= 1
      /\ respBody[r].usage.completion_tokens >= 1
      /\ respBody[r].usage.total_tokens =
           respBody[r].usage.prompt_tokens + respBody[r].usage.completion_tokens

C14_Witness ==
  \E r \in Reqs :
    /\ ~ BackendMode /\ pc[r] = "done" /\ status[r] = 200
    /\ body[r] = [messages |-> JList(<< Msg("user", "Hello!") >>)]
    /\ respBody[r].choices[1].message.content = "Echo: Hello!"
    /\ respBody[r].usage = [prompt_tokens |-> 1, completion_tokens |-> 3, total_tokens |-> 4]

WellTypedMessages(b) ==
  /\ "messages" \in DOMAIN b
  /\ b["messages"].t = "list"
  /\ \A i \in 1..Len(b["messages"].items) :
       LET m == b["messages"].items[i] IN
       /\ m.t = "dict"
       /\ "role" \in DOMAIN m.d /\ m.d["role"].t = "str"
       /\ "content" \in DOMAIN m.d /\ m.d["content"].t = "str"
WellTypedStream(b) == "stream" \notin DOMAIN b \/ b["stream"].t = "bool"
WellTypedMaxTokens(b) ==
  \/ "max_tokens" \notin DOMAIN b
  \/ b["max_tokens"].t = "int" /\ b["max_tokens"].n \in 1..128000
WellTypedModel(b) == "model" \notin DOMAIN b \/ b["model"].t = "str"
WellTypedTemperature(b) ==
  \/ "temperature" \notin DOMAIN b
  \/ b["temperature"].t = "int" /\ b["temperature"].n \in 0..2
  \/ b["temperature"].t = "float" /\ b["temperature"].x10 \in 0..20
WellTypedStop(b) ==
  \/ "stop" \notin DOMAIN b
  \/ b["stop"].t = "str"
  \/ b["stop"].t = "list" /\ \A i \in 1..Len(b["stop"].items) : b["stop"].items[i].t = "str"

FirstFailure(b) ==
  CASE ~ WellTypedMessages(b) -> "invalid_messages"
    [] WellTypedMessages(b) /\ ~ WellTypedStream(b) -> "invalid_stream"
    [] WellTypedMessages(b) /\ WellTypedStream(b) /\ ~ WellTypedMaxTokens(b) -> "invalid_max_tokens"
    [] WellTypedMessages(b) /\ WellTypedStream(b) /\ WellTypedMaxTokens(b)
         /\ ~ WellTypedModel(b) -> "invalid_model"
    [] WellTypedMessages(b) /\ WellTypedStream(b) /\ WellTypedMaxTokens(b)
         /\ WellTypedModel(b) /\ ~ WellTypedTemperature(b) -> "invalid_temperature"
    [] WellTypedMessages(b) /\ WellTypedStream(b) /\ WellTypedMaxTokens(b)
         /\ WellTypedModel(b) /\ WellTypedTemperature(b) /\ ~ WellTypedStop(b) -> "invalid_stop"
    [] OTHER -> "ok"

\* C13: validate_request_body returns the error of the first failing check
\* in the order messages, stream, max_tokens, model, temperature, stop, and
\* accepts exactly the bodies that pass all six.
C13_ValidateFirstFailure ==
  call.fn = "validate" =>
    /\ call.result = FirstFailure(call.arg)
    /\ call.result = "ok" <=>
         ( WellTypedMessages(call.arg) /\ WellTypedStream(call.arg)
           /\ WellTypedMaxTokens(call.arg) /\ WellTypedModel(call.arg)
           /\ WellTypedTemperature(call.arg) /\ WellTypedStop(call.arg) )

C13_Witness ==
  /\ call.fn = "validate"
  /\ call.arg = [messages |-> JList(<< >>), max_tokens |-> JInt(0), model |-> JInt(5),
                 temperature |-> JInt(3), stop |-> JInt(7)]
  /\ call.result = "invalid_max_tokens"

\* the value of the header whose name is `name` in any letter case
HeaderValue(h, name) ==
  IF \E k \in DOMAIN h : Lower(k) = name
  THEN h[CHOOSE k \in DOMAIN h : Lower(k) = name] ELSE ""

\* C15: resolve_request_id returns the x-request-id value when it is there
\* and non-empty, else the request-id value when it is there and non-empty,
\* else a generated identifier of 36 characters that no earlier call
\* returned; a client's value comes back as it was given.
C15_ResolveRequestId ==
  call.fn = "resolve_request_id" =>
    LET x == HeaderValue(call.arg, "x-request-id")
        y == HeaderValue(call.arg, "request-id")
        g == call.generated IN
    /\ x # "" => call.result = x /\ ~ call.fresh
    /\ (x = "" /\ y # "") => call.result = y /\ ~ call.fresh
    /\ (x = "" /\ y = "") =>
         /\ call.fresh
         /\ Len(call.result) = 36
         /\ g # << >> /\ g[Len(g)] = call.result
    /\ \A i, j \in 1..Len(g) : i # j => g[i] # g[j]

C15_Witness ==
  /\ call.fn = "resolve_request_id"
  /\ call.n = 3 /\ Len(call.generated) = 2
  /\ call.arg = [x \in {"x-request-id", "Request-Id"} |-> IF x = "x-request-id" THEN "test-42" ELSE "rid-7"]
  /\ call.result = "test-42"

\* C18: extract_prompt returns the content of the user message closest to
\* the end of the list, and "" when no message has role "user".
C18_ExtractPromptLastUser ==
  call.fn = "extract_prompt" =>
    /\ call.result.ok
    /\ call.result.v = JStr(LastUserContent(call.arg))
    /\ (\A i \in 1..Len(call.arg) : call.arg[i].d["role"].s # "user") => call.result.v.s = ""

C18_Witness ==
  /\ call.fn = "extract_prompt"
  /\ call.arg = << Msg("user", "a"), Msg("user", "b"), Msg("assistant", "a") >>
  /\ call.result.v.s = "b"

\* C19: the keys of normalize_request_body(body) are the recognised fields
\* of body plus model and stream; fields that are there keep their value,
\* a missing model is "echo", a missing stream is false, unrecognised fields
\* are gone, and normalising the result again changes nothing.
C19_NormalizeFields ==
  call.fn = "normalize" =>
    LET b == call.arg
        out == call.result
        known == {"messages", "stream", "max_tokens", "model", "temperature", "stop"} IN
    /\ DOMAIN out = (DOMAIN b \cap known) \cup {"model", "stream"}
    /\ \A k \in DOMAIN b \cap known : out[k] = b[k]
    /\ "model" \notin DOMAIN b => out["model"] = [t |-> "str", s |-> "echo"]
    /\ "stream" \notin DOMAIN b => out["stream"] = [t |-> "bool", b |-> FALSE]
    /\ call.again = out

C19_Witness ==
  /\ call.fn = "normalize"
  /\ call.arg = [messages |-> JList(<< >>), bogus_field |-> JInt(1)]
  /\ call.result = [messages |-> JList(<< >>), model |-> JStr("echo"), stream |-> JBool(FALSE)]

\* everything the handling of request r reads or writes, the configuration
\* and the identifier generator apart
Local(r) ==
  << pc[r], body[r], headers[r], request_id[r], stream[r], prompt[r], wire[r], conn[r],
     beStatus[r], payload[r], bbody[r], nread[r], raised[r], started[r], status[r],
     respHeaders[r], respBody[r], frames[r], outcome[r] >>

\* what request r has sent and answered so far is what its own body, its
\* own headers and the backend's answer to it give when it is handled alone
OwnOutcome(r) ==
  Handled(r) =>
    LET x == Get(headers[r], "x-request-id", "")
        y == Get(headers[r], "request-id", "")
        p == LastUserContent(body[r]["messages"].items) IN
    /\ request_id[r] = (IF x # "" THEN x ELSE IF y # "" THEN y ELSE request_id[r])
    /\ (x = "" /\ y = "") => \E k \in 1..uuidCalls : request_id[r] = Uuid4(k)
    /\ stream[r] = Get(body[r], "stream", JBool(FALSE))
    /\ Len(wire[r]) <= 1
    /\ \A i \in 1..Len(wire[r]) :
         /\ wire[r][i].json = body[r]
         /\ wire[r][i].headers["X-Request-ID"] = request_id[r]
    /\ started[r] /\ status[r] = 200 => respHeaders[r] = IdHeader(request_id[r])
    /\ IF BACKEND_URL = ""
       THEN /\ wire[r] = << >>
            /\ outcome[r] = "json" =>
                 respBody[r] = build_response(request_id[r], "Echo: " \o p, p)
            /\ Len(frames[r]) <= 3
            /\ frames[r] = SubSeq(echo_stream(p, request_id[r]), 1, Len(frames[r]))
            /\ outcome[r] = "complete" => Len(frames[r]) = 3
       ELSE /\ frames[r] = DataFrames(SubSeq(bbody[r], 1, nread[r]))
            /\ outcome[r] = "complete" => nread[r] = Len(bbody[r])
            /\ outcome[r] = "json" => status[r] = 200 /\ respBody[r] = payload[r].json
            /\ outcome[r] = "error" =>
                 /\ status[r] = ExceptionResponse(raised[r]).status
                 /\ respBody[r] = ExceptionResponse(raised[r]).body

\* generated identifiers differ between requests
DistinctGenerated ==
  \A r, q \in Reqs :
    (r # q /\ Handled(r) /\ Handled(q) /\ headers[r] = << >> /\ headers[q] = << >>) =>
      request_id[r] # request_id[q]

\* a request suspended at a backend network boundary leaves the other
\* request able to take its next step
NonBlocking ==
  \A r, q \in Reqs :
    (r # q /\ pc[q] \in {"await_post", "s_open", "s_read"} /\ pc[r] # "done") =>
      ENABLED ConcStep(r)

\* C17: in every interleaving of two requests, a step changes the state of
\* one request only, the backend URL is never written, a suspended request
\* never blocks the other, and what each request sends and answers is what
\* its own inputs give.
C17_RequestsIndependent ==
  [][ /\ \E r \in Reqs : \A q \in Reqs \ {r} : Local(q)' = Local(q)
      /\ BACKEND_URL' = BACKEND_URL
      /\ NonBlocking
      /\ (\A r \in Reqs : OwnOutcome(r))'
      /\ DistinctGenerated' ]_vars

C17_Witness ==
  /\ BACKEND_URL # ""
  /\ pc["r1"] = "s_read" /\ nread["r1"] = 1 /\ Len(frames["r1"]) = 1
  /\ pc["r2"] = "done" /\ outcome["r2"] = "json" /\ Len(wire["r2"]) = 1
  /\ headers["r1"] = << >> /\ headers["r2"] = << >>
  /\ request_id["r1"] # request_id["r2"]

====
